---- MODULE Spec2Model ----
(***************************************************************************)
(* Model of the todo/user HTTP service of src/src/main.rs.                 *)
(*                                                                         *)
(* The service keeps no state of its own: the state is the two database    *)
(* tables (todos, "Users") and the requests that are in flight.  Every     *)
(* handler is a sequence of SQL statements separated by .await points;     *)
(* each statement is executed atomically by the database (auto-commit, no  *)
(* transaction is ever opened), and requests of different connections      *)
(* interleave between statements.  One action of the model is one          *)
(* statement of one handler together with the Rust code that follows it up *)
(* to the next .await or to the response.                                  *)
(*                                                                         *)
(* A table is a set of rows.  An Option<T> value is the empty set (None)   *)
(* or a singleton (Some(v)).  Every statement may fail with a database     *)
(* error (sqlx returns Err); a failed statement has no effect.             *)
(***************************************************************************)
EXTENDS Integers, FiniteSets, Sequences, TLC

\* ---------------------------------------------------------------- bounds
\* number of ids the todos id sequence hands out in a run
MaxTodoSeq == 2
\* number of ids the "Users" id sequence hands out in a run
MaxUserSeq == 2
\* number of rows the run of SpecSerial inserts, both tables together
MaxRows == 2

\* Two requests are in flight at a time: a request and one that interferes
\* with it.  More would add no table history: a statement changes a table
\* only if its row is there when it runs, so whatever several overlapping
\* requests do to the tables, requests that run one after the other in the
\* second slot do too.
Slots == 1..2
TodoIds == 1..MaxTodoSeq
UserIds == 1..MaxUserSeq

\* ------------------------------------------------------------ value sets
None == {}
Some(v) == {v}

DefaultTitle == "Untitled"
DefaultCompleted == FALSE
DefaultDescription == ""

\* request bodies of create_todo (Todo; its id field is never read by the
\* handler) and of update_todo (UpdateTaskReq): each field is omitted or
\* supplied independently of the others
TodoBodies ==
    [title : {None, Some("Buy milk")},
     completed : {None, Some(TRUE)},
     description : {None, Some("2%")}]

\* UpdateUserReq
UserBodies == [name : {None, Some("bob")}, password : {None, Some("hunter2")}]

\* NewUser: both fields required
NewUsers == [name : {"alice"}, password : {"secret"}]

NoTodoData == [title |-> None, completed |-> None, description |-> None]
NoUserData == [name |-> None, password |-> None]

VARIABLES
    todos,      \* the todos table: a set of rows [id, title, completed, description]
    users,      \* the "Users" table: a set of rows [id, name, password]
    todoSeq,    \* next value of the id sequence of todos
    userSeq,    \* next value of the id sequence of "Users"
    req,        \* the in-flight requests that are between two statements
    ev,         \* the statement executed by the last step and its outcome
    liveTodos,  \* history: ids returned by create_todo and not deleted since
    keepBodies  \* history switch, fixed for a run: whether an update_todo that
                \* is past its UPDATE keeps the body it sent (the handler
                \* reads todo_data for the last time when it binds the UPDATE)

vars == <<todos, users, todoSeq, userSeq, req, ev, liveTodos, keepBodies>>

\* ------------------------------------------------------- pure operators
\* Option::unwrap_or / unwrap_or_else
unwrap_or(opt, default) == IF opt = None THEN default ELSE CHOOSE v \in opt : TRUE

\* SQL COALESCE($n, column)
COALESCE(opt, column) == IF opt = None THEN column ELSE CHOOSE v \in opt : TRUE

\* value the id sequence assigns to an inserted row
NextId(seq) == seq

\* all orders in which fetch_all may return the rows of a SELECT without
\* ORDER BY
RECURSIVE Orders(_)
Orders(S) ==
    IF S = {} THEN {<<>>}
    ELSE UNION {{<<row>> \o rest : rest \in Orders(S \ {row})} : row \in S}

\* a listing that leaves the completed tasks out
SelectOpenTodos(T) == {row \in T : ~row.completed}

\* SELECT * FROM todos
SelectAllTodos(T) == T

\* a fetch whose WHERE clause is lost
SelectTodoAny(T, id) == T

\* SELECT * FROM todos WHERE id = $1
SelectTodoById(T, id) == {row \in T : row.id = id}

\* a row of todos; also the shape of Todo and TodoResponse in a response
TodoRow(id, title, completed, description) ==
    [id |-> id, title |-> title, completed |-> completed,
     description |-> description]

\* create_todo with the completed value lost on the way to the table
InsertTodoCompletedLost(T, id, title, completed, description) ==
    T \cup {TodoRow(id, title, FALSE, description)}

\* INSERT INTO todos (title, completed, description) VALUES ($1, $2, $3)
InsertTodo(T, id, title, completed, description) ==
    T \cup {TodoRow(id, title, completed, description)}

\* UPDATE todos SET title = $1, completed = $2, description = $3 WHERE id = $4
UpdateTodos(T, title, completed, description, id) ==
    {IF row.id = id
     THEN [row EXCEPT !.title = title, !.completed = completed,
                      !.description = description]
     ELSE row : row \in T}

\* a delete with <= for = in its WHERE clause
DeleteTodosUpTo(T, id) == {row \in T : row.id > id}

\* DELETE FROM todos WHERE id = $1
DeleteTodos(T, id) == {row \in T : row.id # id}

\* an existence check whose WHERE clause is lost
SelectUserAny(U, id) == U

\* SELECT ... FROM "Users" WHERE id = $1
SelectUserById(U, id) == {row \in U : row.id = id}

\* INSERT INTO "Users" (name, password) VALUES ($1, $2)
InsertUser(U, id, name, password) ==
    U \cup {[id |-> id, name |-> name, password |-> password]}

\* an update that binds the defaulted values, as update_todo does
UpdateUsersNoCoalesce(U, name, password, id) ==
    {IF row.id = id
     THEN [row EXCEPT !.name = unwrap_or(name, ""),
                      !.password = unwrap_or(password, "")]
     ELSE row : row \in U}

\* an update that inserts the row when no row has the id
UpsertUsers(U, name, password, id) ==
    IF \E row \in U : row.id = id
    THEN {IF row.id = id
          THEN [row EXCEPT !.name = COALESCE(name, row.name),
                           !.password = COALESCE(password, row.password)]
          ELSE row : row \in U}
    ELSE U \cup {[id |-> id, name |-> unwrap_or(name, ""),
                  password |-> unwrap_or(password, "")]}

\* UPDATE "Users" SET name = COALESCE($1, name),
\*                   password = COALESCE($2, password) WHERE id = $3
UpdateUsers(U, name, password, id) ==
    {IF row.id = id
     THEN [row EXCEPT !.name = COALESCE(name, row.name),
                      !.password = COALESCE(password, row.password)]
     ELSE row : row \in U}

\* rows_affected() of an UPDATE or DELETE ... WHERE id = $n on table U
RowsAffected(U, id) == Cardinality({row \in U : row.id = id})

\* DELETE FROM "Users" WHERE id = $1
DeleteUsers(U, id) == {row \in U : row.id # id}

\* UserResponse { id, name }: the password is not part of it
UserResponse(row) == [id |-> row.id, name |-> row.name]

\* ------------------------------------------------------------- requests
Idle == [pc |-> "idle", id |-> 0, todo_data |-> NoTodoData, user_data |-> NoUserData]

InFlight(pc, id, todo_data, user_data) ==
    [pc |-> pc, id |-> id, todo_data |-> todo_data, user_data |-> user_data]

\* the record of one executed statement: which handler, which of its
\* statements, its inputs, whether the database failed, the number of rows
\* the statement matched, and the response when the statement ended the
\* request (status 0: no response)
Event(handler, stmt, id, todo_data, user_data, dberr, rows, done, status, resp) ==
    [handler |-> handler, stmt |-> stmt, id |-> id, todo_data |-> todo_data,
     user_data |-> user_data, dberr |-> dberr, rows |-> rows, done |-> done,
     status |-> status, resp |-> resp]

\* a new request takes the first slot that is free (the slots are
\* interchangeable)
FreeSlot(r) == req[r].pc = "idle" /\ \A q \in Slots : q < r => req[q].pc # "idle"

NoEvent == Event("none", 0, 0, NoTodoData, NoUserData, FALSE, 0, FALSE, 0, <<>>)

\* the service starts on an empty database
Init ==
    /\ todos = {}
    /\ users = {}
    /\ todoSeq = 1
    /\ userSeq = 1
    /\ req = [r \in Slots |-> Idle]
    /\ ev = NoEvent
    /\ liveTodos = {}
    /\ keepBodies = FALSE

\* the service starts on a database in which one user has registered
InitTodos ==
    /\ todos = {}
    /\ users = InsertUser({}, NextId(1), "alice", "secret")
    /\ todoSeq = 1
    /\ userSeq = 2
    /\ req = [r \in Slots |-> Idle]
    /\ ev = NoEvent
    /\ liveTodos = {}
    /\ keepBodies = FALSE

\* as InitTodos, and the run keeps the body of every update_todo in flight
InitTodosKept ==
    /\ todos = {}
    /\ users = InsertUser({}, NextId(1), "alice", "secret")
    /\ todoSeq = 1
    /\ userSeq = 2
    /\ req = [r \in Slots |-> Idle]
    /\ ev = NoEvent
    /\ liveTodos = {}
    /\ keepBodies = TRUE

\* the service starts on a database in which one task has been created
InitUsers ==
    /\ todos = InsertTodo({}, NextId(1), "Buy milk", DefaultCompleted, DefaultDescription)
    /\ users = {}
    /\ todoSeq = 2
    /\ userSeq = 1
    /\ req = [r \in Slots |-> Idle]
    /\ ev = NoEvent
    /\ liveTodos = {NextId(1)}
    /\ keepBodies = FALSE

\* ---------------------------------------------------------- todo handlers
\* get_todos: one SELECT; .expect panics on a database error, so no response
\* is produced then
get_todos ==
    /\ \E ok \in BOOLEAN :
        IF ok
        THEN \E list \in Orders(SelectAllTodos(todos)) :
                ev' = Event("get_todos", 1, 0, NoTodoData, NoUserData,
                            FALSE, Len(list), TRUE, 200, list)
        ELSE ev' = Event("get_todos", 1, 0, NoTodoData, NoUserData,
                         TRUE, 0, TRUE, 0, <<>>)
    /\ UNCHANGED <<todos, users, todoSeq, userSeq, req, liveTodos, keepBodies>>

\* create_todo: one INSERT ... RETURNING
create_todo ==
    \E new_todo \in TodoBodies, ok \in BOOLEAN :
        /\ todoSeq <= MaxTodoSeq
        /\ IF ok
           THEN LET id == NextId(todoSeq)
                    title == unwrap_or(new_todo.title, DefaultTitle)
                    completed == unwrap_or(new_todo.completed, DefaultCompleted)
                    description == unwrap_or(new_todo.description, DefaultDescription)
                IN /\ todos' = InsertTodo(todos, id, title, completed, description)
                   /\ todoSeq' = todoSeq + 1
                   /\ liveTodos' = liveTodos \cup {id}
                   /\ ev' = Event("create_todo", 1, id, new_todo, NoUserData,
                                  FALSE, 1, TRUE, 201,
                                  <<TodoRow(id, title, completed, description)>>)
           ELSE /\ ev' = Event("create_todo", 1, 0, new_todo, NoUserData,
                               TRUE, 0, TRUE, 500, <<>>)
                /\ UNCHANGED <<todos, todoSeq, liveTodos, keepBodies>>
        /\ UNCHANGED <<users, userSeq, req, keepBodies>>

\* update_todo, first statement: the UPDATE
update_todo_update(r) ==
    \E todo_id \in TodoIds, todo_data \in TodoBodies, ok \in BOOLEAN :
        /\ FreeSlot(r)
        /\ IF ok
           THEN /\ todos' = UpdateTodos(todos,
                               unwrap_or(todo_data.title, DefaultTitle),
                               unwrap_or(todo_data.completed, DefaultCompleted),
                               unwrap_or(todo_data.description, DefaultDescription),
                               todo_id)
                /\ req' = [req EXCEPT ![r] =
                             InFlight("update_todo_fetch", todo_id,
                                      IF keepBodies THEN todo_data ELSE NoTodoData,
                                      NoUserData)]
                /\ ev' = Event("update_todo", 1, todo_id, todo_data, NoUserData,
                               FALSE, RowsAffected(todos, todo_id), FALSE, 0, <<>>)
           ELSE /\ ev' = Event("update_todo", 1, todo_id, todo_data, NoUserData,
                               TRUE, 0, TRUE, 500, <<>>)
                /\ UNCHANGED <<todos, req>>
        /\ UNCHANGED <<users, todoSeq, userSeq, liveTodos, keepBodies>>

\* update_todo, second statement: SELECT ... WHERE id, fetch_one
update_todo_fetch(r) ==
    /\ req[r].pc = "update_todo_fetch"
    /\ \E ok \in BOOLEAN :
        LET found == SelectTodoById(todos, req[r].id) IN
        IF ok /\ found # {}
        THEN \E updated_todo \in found :
                ev' = Event("update_todo", 2, req[r].id, req[r].todo_data, NoUserData,
                            FALSE, Cardinality(found), TRUE, 200, <<updated_todo>>)
        ELSE ev' = Event("update_todo", 2, req[r].id, req[r].todo_data, NoUserData,
                         ~ok, 0, TRUE, 500, <<>>)
    /\ req' = [req EXCEPT ![r] = Idle]
    /\ UNCHANGED <<todos, users, todoSeq, userSeq, liveTodos, keepBodies>>

\* delete_todo: one DELETE, no existence check
delete_todo ==
    \E todo_id \in TodoIds, ok \in BOOLEAN :
        /\ IF ok
           THEN /\ todos' = DeleteTodos(todos, todo_id)
                /\ liveTodos' = liveTodos \ {todo_id}
                /\ ev' = Event("delete_todo", 1, todo_id, NoTodoData, NoUserData,
                               FALSE, RowsAffected(todos, todo_id), TRUE, 204, <<>>)
           ELSE /\ ev' = Event("delete_todo", 1, todo_id, NoTodoData, NoUserData,
                               TRUE, 0, TRUE, 500, <<>>)
                /\ UNCHANGED <<todos, liveTodos>>
        /\ UNCHANGED <<users, todoSeq, userSeq, req, keepBodies>>

NextTodos ==
    \/ get_todos
    \/ create_todo
    \/ \E r \in Slots : update_todo_update(r)
    \/ \E r \in Slots : update_todo_fetch(r)
    \/ delete_todo

\* ---------------------------------------------------------- user handlers
\* create_user, first statement: INSERT ... RETURNING id
create_user_insert(r) ==
    \E new_user \in NewUsers, ok \in BOOLEAN :
        /\ FreeSlot(r)
        /\ userSeq <= MaxUserSeq
        /\ IF ok
           THEN LET user_id == NextId(userSeq) IN
                /\ users' = InsertUser(users, user_id, new_user.name, new_user.password)
                /\ userSeq' = userSeq + 1
                /\ req' = [req EXCEPT ![r] =
                             InFlight("create_user_fetch", user_id, NoTodoData, NoUserData)]
                /\ ev' = Event("create_user", 1, user_id, NoTodoData, NoUserData,
                               FALSE, 1, FALSE, 0, <<>>)
           ELSE /\ ev' = Event("create_user", 1, 0, NoTodoData, NoUserData,
                               TRUE, 0, TRUE, 500, <<>>)
                /\ UNCHANGED <<users, userSeq, req>>
        /\ UNCHANGED <<todos, todoSeq, liveTodos, keepBodies>>

\* create_user with the INSERT undone when the fetch fails
create_user_fetch_rollback(r) ==
    /\ req[r].pc = "create_user_fetch"
    /\ \E ok \in BOOLEAN :
        LET found == SelectUserById(users, req[r].id) IN
        IF ok /\ found # {}
        THEN /\ \E row \in found :
                ev' = Event("create_user", 2, req[r].id, NoTodoData, NoUserData,
                            FALSE, Cardinality(found), TRUE, 201, <<UserResponse(row)>>)
             /\ UNCHANGED users
        ELSE /\ ev' = Event("create_user", 2, req[r].id, NoTodoData, NoUserData,
                            ~ok, 0, TRUE, 500, <<>>)
             /\ users' = DeleteUsers(users, req[r].id)
    /\ req' = [req EXCEPT ![r] = Idle]
    /\ UNCHANGED <<todos, todoSeq, userSeq, liveTodos, keepBodies>>

\* create_user, second statement: SELECT id, name ... WHERE id, fetch_one
create_user_fetch(r) ==
    /\ req[r].pc = "create_user_fetch"
    /\ \E ok \in BOOLEAN :
        LET found == SelectUserById(users, req[r].id) IN
        IF ok /\ found # {}
        THEN \E row \in found :
                ev' = Event("create_user", 2, req[r].id, NoTodoData, NoUserData,
                            FALSE, Cardinality(found), TRUE, 201, <<UserResponse(row)>>)
        ELSE ev' = Event("create_user", 2, req[r].id, NoTodoData, NoUserData,
                         ~ok, 0, TRUE, 500, <<>>)
    /\ req' = [req EXCEPT ![r] = Idle]
    /\ UNCHANGED <<todos, users, todoSeq, userSeq, liveTodos, keepBodies>>

\* delete_user, first statement: the existence check (fetch_optional)
delete_user_check(r) ==
    \E user_id \in UserIds, ok \in BOOLEAN :
        /\ FreeSlot(r)
        /\ LET existing_user == SelectUserById(users, user_id) IN
           IF ok /\ existing_user # {}
           THEN /\ req' = [req EXCEPT ![r] =
                             InFlight("delete_user_delete", user_id, NoTodoData, NoUserData)]
                /\ ev' = Event("delete_user", 1, user_id, NoTodoData, NoUserData,
                               FALSE, Cardinality(existing_user), FALSE, 0, <<>>)
           ELSE /\ ev' = Event("delete_user", 1, user_id, NoTodoData, NoUserData,
                               ~ok, 0, TRUE, IF ok THEN 404 ELSE 500, <<>>)
                /\ UNCHANGED req
        /\ UNCHANGED <<todos, users, todoSeq, userSeq, liveTodos, keepBodies>>

\* delete_user, second statement: the DELETE
delete_user_delete(r) ==
    /\ req[r].pc = "delete_user_delete"
    /\ \E ok \in BOOLEAN :
        IF ok
        THEN /\ users' = DeleteUsers(users, req[r].id)
             /\ ev' = Event("delete_user", 2, req[r].id, NoTodoData, NoUserData,
                            FALSE, RowsAffected(users, req[r].id), TRUE, 200, <<>>)
        ELSE /\ ev' = Event("delete_user", 2, req[r].id, NoTodoData, NoUserData,
                            TRUE, 0, TRUE, 500, <<>>)
             /\ UNCHANGED users
    /\ req' = [req EXCEPT ![r] = Idle]
    /\ UNCHANGED <<todos, todoSeq, userSeq, liveTodos, keepBodies>>

\* update_user, first statement: the existence check (fetch_optional)
update_user_check(r) ==
    \E user_id \in UserIds, user_data \in UserBodies, ok \in BOOLEAN :
        /\ FreeSlot(r)
        /\ LET existing_user == SelectUserById(users, user_id) IN
           IF ok /\ existing_user # {}
           THEN /\ req' = [req EXCEPT ![r] =
                             InFlight("update_user_update", user_id, NoTodoData, user_data)]
                /\ ev' = Event("update_user", 1, user_id, NoTodoData, user_data,
                               FALSE, Cardinality(existing_user), FALSE, 0, <<>>)
           ELSE /\ ev' = Event("update_user", 1, user_id, NoTodoData, user_data,
                               ~ok, 0, TRUE, IF ok THEN 404 ELSE 500, <<>>)
                /\ UNCHANGED req
        /\ UNCHANGED <<todos, users, todoSeq, userSeq, liveTodos, keepBodies>>

\* update_user, second statement: the UPDATE and the rows_affected check
update_user_update(r) ==
    /\ req[r].pc = "update_user_update"
    /\ \E ok \in BOOLEAN :
        IF ok
        THEN /\ users' = UpdateUsers(users, req[r].user_data.name,
                                     req[r].user_data.password, req[r].id)
             /\ IF RowsAffected(users, req[r].id) = 0
                THEN /\ ev' = Event("update_user", 2, req[r].id, NoTodoData,
                                    req[r].user_data, FALSE, 0, TRUE, 404, <<>>)
                     /\ req' = [req EXCEPT ![r] = Idle]
                ELSE /\ ev' = Event("update_user", 2, req[r].id, NoTodoData,
                                    req[r].user_data, FALSE, RowsAffected(users, req[r].id), FALSE, 0, <<>>)
                     /\ req' = [req EXCEPT ![r].pc = "update_user_fetch"]
        ELSE /\ ev' = Event("update_user", 2, req[r].id, NoTodoData,
                            req[r].user_data, TRUE, 0, TRUE, 500, <<>>)
             /\ req' = [req EXCEPT ![r] = Idle]
             /\ UNCHANGED users
    /\ UNCHANGED <<todos, todoSeq, userSeq, liveTodos, keepBodies>>

\* update_user, third statement: SELECT id, name, password ... fetch_one
update_user_fetch(r) ==
    /\ req[r].pc = "update_user_fetch"
    /\ \E ok \in BOOLEAN :
        LET found == SelectUserById(users, req[r].id) IN
        IF ok /\ found # {}
        THEN \E updated_user \in found :
                ev' = Event("update_user", 3, req[r].id, NoTodoData, req[r].user_data,
                            FALSE, Cardinality(found), TRUE, 200, <<updated_user>>)
        ELSE ev' = Event("update_user", 3, req[r].id, NoTodoData, req[r].user_data,
                         ~ok, 0, TRUE, 500, <<>>)
    /\ req' = [req EXCEPT ![r] = Idle]
    /\ UNCHANGED <<todos, users, todoSeq, userSeq, liveTodos, keepBodies>>

NextUsers ==
    \/ \E r \in Slots : create_user_insert(r)
    \/ \E r \in Slots : create_user_fetch(r)
    \/ \E r \in Slots : delete_user_check(r)
    \/ \E r \in Slots : delete_user_delete(r)
    \/ \E r \in Slots : update_user_check(r)
    \/ \E r \in Slots : update_user_update(r)
    \/ \E r \in Slots : update_user_fetch(r)

Next == NextTodos \/ NextUsers

\* the whole service
Spec == Init /\ [][Next]_vars

\* no request is between two statements
AllIdle == \A r \in Slots : req[r].pc = "idle"

\* the run has inserted fewer than MaxRows rows
RowBudget == (todoSeq - 1) + (userSeq - 1) < MaxRows

\* a step of the service when its clients send one request at a time
NextSerial ==
    \/ AllIdle /\ get_todos
    \/ AllIdle /\ RowBudget /\ create_todo
    \/ AllIdle /\ delete_todo
    \/ AllIdle /\ \E r \in Slots : update_todo_update(r)
    \/ AllIdle /\ RowBudget /\ \E r \in Slots : create_user_insert(r)
    \/ AllIdle /\ \E r \in Slots : delete_user_check(r)
    \/ AllIdle /\ \E r \in Slots : update_user_check(r)
    \/ \E r \in Slots : update_todo_fetch(r)
    \/ \E r \in Slots : create_user_fetch(r)
    \/ \E r \in Slots : delete_user_delete(r)
    \/ \E r \in Slots : update_user_update(r)
    \/ \E r \in Slots : update_user_fetch(r)

\* all routes of the service, one request at a time
SpecSerial == Init /\ [][NextSerial]_vars

\* the service driven by the clients of the /todos routes
SpecTodos == InitTodos /\ [][NextTodos]_vars

\* the same, each update_todo keeping the body it sent until it answers
SpecTodosKept == InitTodosKept /\ [][NextTodos]_vars

\* the service driven by the clients of the user routes
SpecUsers == InitUsers /\ [][NextUsers]_vars

\* ------------------------------------------------------------ properties
\* The step that has just been taken is the statement ev' describes; a
\* property of a handler is a property of the steps whose ev' names it.
\* A statement that fails with a database error is the handler's
\* "500 on DB error" path and is told apart by ev.dberr.

\* the value a body supplies for a field, or the given default
Expected(opt, default, v) ==
    IF opt = None THEN v = default ELSE v \in opt

\* number of positions of list that hold a row with the given id
Occurrences(list, id) == Cardinality({i \in 1..Len(list) : list[i].id = id})

\* C1: create_todo, when its INSERT executes, adds exactly one row to todos;
\* the row holds "Untitled" / false / "" in the fields the body omits and the
\* supplied value in the others; the response is 201 with that row; the
\* row's id is positive and is the id of no row that was in the table.
C1_CreateTodoInsertsDefaults ==
    [][(ev'.handler = "create_todo" /\ ~ev'.dberr) =>
          /\ ev'.status = 201
          /\ Len(ev'.resp) = 1
          /\ LET row == ev'.resp[1]
                 body == ev'.todo_data
             IN /\ row \notin todos
                /\ todos' = todos \cup {row}
                /\ Expected(body.title, "Untitled", row.title)
                /\ Expected(body.completed, FALSE, row.completed)
                /\ Expected(body.description, "", row.description)
                /\ row.id > 0
                /\ \A old \in todos : old.id # row.id
          /\ users' = users]_vars

\* C1 witness: an empty body was posted to a table that held a task
C1_Witness ==
    /\ ev.handler = "create_todo"
    /\ ev.status = 201
    /\ ev.todo_data = NoTodoData
    /\ Cardinality(todos) = 2
    /\ ev.resp = <<TodoRow(2, "Untitled", FALSE, "")>>

\* C2: a list returned by get_todos holds the id of every task that was
\* created and not deleted since exactly once, and holds no id twice.
C2_ListHoldsEachLiveIdOnce ==
    (ev.handler = "get_todos" /\ ~ev.dberr) =>
        /\ ev.status = 200
        /\ \A t \in liveTodos : Occurrences(ev.resp, t) = 1
        /\ \A i, j \in 1..Len(ev.resp) : ev.resp[i].id = ev.resp[j].id => i = j

\* C2 witness: a list of two tasks, one of them completed
C2_Witness ==
    /\ ev.handler = "get_todos"
    /\ ev.status = 200
    /\ Len(ev.resp) = 2
    /\ liveTodos = {1, 2}
    /\ \E i \in 1..2 : ev.resp[i].completed

\* C3: delete_todo, when its DELETE executes, answers 204 and leaves "Users"
\* alone; no row with the id is left; when no row had the id the todos table
\* is unchanged (so a second delete of the same id answers 204 and changes
\* nothing).
C3_DeleteTodoIdempotent ==
    [][(ev'.handler = "delete_todo" /\ ~ev'.dberr) =>
          /\ ev'.status = 204
          /\ \A row \in todos' : row.id # ev'.id
          /\ (\A row \in todos : row.id # ev'.id) => todos' = todos
          /\ users' = users]_vars

\* C3 witness: a delete of an id that no row has, on a table that holds rows
C3_Witness ==
    /\ ev.handler = "delete_todo"
    /\ ev.status = 204
    /\ ev.rows = 0
    /\ ev.id = 2
    /\ todos # {}
    /\ users # {}

\* a field the body omits keeps its value
Kept(opt, before, after) == opt = None => after = before

\* C6: a partial update of an existing row, by update_todo or by
\* update_user, leaves every field that the body omits at the value it had
\* before the request.
C6_PatchKeepsOmittedFields ==
    [][/\ (ev'.handler = "update_todo" /\ ev'.stmt = 1 /\ ~ev'.dberr) =>
            \A row \in todos : row.id = ev'.id =>
                \E new \in todos' :
                    /\ new.id = row.id
                    /\ Kept(ev'.todo_data.title, row.title, new.title)
                    /\ Kept(ev'.todo_data.completed, row.completed, new.completed)
                    /\ Kept(ev'.todo_data.description, row.description, new.description)
       /\ (ev'.handler = "update_user" /\ ev'.stmt = 2 /\ ~ev'.dberr) =>
            \A row \in users : row.id = ev'.id =>
                \E new \in users' :
                    /\ new.id = row.id
                    /\ Kept(ev'.user_data.name, row.name, new.name)
                    /\ Kept(ev'.user_data.password, row.password, new.password)]_vars

\* C7: update_todo on an id that no row of todos has: the UPDATE leaves the
\* table as it is, and the fetch that follows, finding no row, ends the
\* request with 500 and leaves the table as it is; "Users" is not touched.
C7_UpdateMissingTodoFails ==
    [][(ev'.handler = "update_todo" /\ \A row \in todos : row.id # ev'.id) =>
          /\ todos' = todos
          /\ users' = users
          /\ ev'.stmt = 1 => (ev'.done <=> ev'.dberr)
          /\ ev'.done => ev'.status = 500 /\ ev'.resp = <<>>]_vars

\* C7 witness: the fetch after an UPDATE of a missing id found nothing while
\* the table held another row
C7_Witness ==
    /\ ev.handler = "update_todo"
    /\ ev.stmt = 2
    /\ ~ev.dberr
    /\ ev.rows = 0
    /\ ev.status = 500
    /\ \E row \in todos : row.id # ev.id
    /\ \A row \in todos : row.id # ev.id

\* C10: a 200 response of update_todo carries the path id and the values
\* this request wrote: the supplied value of each field, or "Untitled" /
\* false / "" for an omitted one.  (ev.todo_data is the body the answering
\* request sent, which the runs of SpecTodosKept keep.)
C10_UpdateTodoReturnsOwnWrite ==
    (keepBodies /\ ev.handler = "update_todo" /\ ev.status = 200) =>
        /\ Len(ev.resp) = 1
        /\ ev.resp[1].id = ev.id
        /\ Expected(ev.todo_data.title, "Untitled", ev.resp[1].title)
        /\ Expected(ev.todo_data.completed, FALSE, ev.resp[1].completed)
        /\ Expected(ev.todo_data.description, "", ev.resp[1].description)

\* C4: update_user on an id that no row of "Users" has answers 404 whatever
\* the body is, as soon as a statement of it (the existence check, or the
\* UPDATE after a check that still saw the row) executes and matches no
\* row; the request ends there and both tables are as they were.
C4_UpdateMissingUserNotFound ==
    [][(/\ ev'.handler = "update_user"
        /\ ev'.stmt \in {1, 2}
        /\ ~ev'.dberr
        /\ \A row \in users : row.id # ev'.id) =>
          /\ ev'.done
          /\ ev'.status = 404
          /\ users' = users
          /\ todos' = todos]_vars

\* C4 witness: the existence check of a request with a full body found no
\* row while the table held another user
C4_Witness ==
    /\ ev.handler = "update_user"
    /\ ev.stmt = 1
    /\ ev.status = 404
    /\ ev.user_data = [name |-> Some("bob"), password |-> Some("hunter2")]
    /\ users # {}
    /\ \A row \in users : row.id # ev.id

\* the row a body makes of a "Users" row
Patched(row, body) ==
    [id |-> row.id,
     name |-> IF body.name = None THEN row.name ELSE CHOOSE v \in body.name : TRUE,
     password |-> IF body.password = None THEN row.password
                  ELSE CHOOSE v \in body.password : TRUE]

\* C5: the UPDATE of update_user replaces the row that has the id by the
\* same row with the supplied fields set and the omitted fields (and the id)
\* kept, keeps every other row and the todos table, and continues to the
\* fetch when it matched a row; the fetch of a row that is there answers 200
\* with that row and changes nothing.
C5_UpdateUserChangesOnlySuppliedFields ==
    [][/\ (ev'.handler = "update_user" /\ ev'.stmt = 2 /\ ~ev'.dberr) =>
            /\ users' = {IF row.id = ev'.id THEN Patched(row, ev'.user_data) ELSE row :
                            row \in users}
            /\ todos' = todos
            /\ (\E row \in users : row.id = ev'.id) => ~ev'.done
       /\ (/\ ev'.handler = "update_user" /\ ev'.stmt = 3 /\ ~ev'.dberr
           /\ \E row \in users : row.id = ev'.id) =>
            /\ ev'.status = 200
            /\ Len(ev'.resp) = 1
            /\ ev'.resp[1] \in users
            /\ ev'.resp[1].id = ev'.id
            /\ users' = users
            /\ todos' = todos]_vars

\* C5 witness: {name: "bob"} was sent for a user whose password is "secret",
\* with a second user in the table, and the response shows the password kept
C5_Witness ==
    /\ ev.handler = "update_user"
    /\ ev.stmt = 3
    /\ ev.status = 200
    /\ ev.user_data = [name |-> Some("bob"), password |-> None]
    /\ ev.resp = <<[id |-> ev.id, name |-> "bob", password |-> "secret"]>>
    /\ Cardinality(users) = 2
    /\ todos # {}

\* the destructive statement of a user request (the UPDATE of update_user,
\* the DELETE of delete_user) has just run on an id whose row, seen by the
\* request's existence check, was removed in between
RowGoneBeforeAct ==
    /\ ev'.handler \in {"update_user", "delete_user"}
    /\ ev'.stmt = 2
    /\ \A row \in users : row.id # ev'.id

\* C8 as stated: when a concurrent delete_user removes the row between the
\* existence check and the destructive statement, the request ends with 500
\* and "Users" holds no row for the id and is otherwise unchanged.
C8_RowGoneEndsWith500 ==
    [][RowGoneBeforeAct =>
          /\ ev'.done
          /\ ev'.status = 500
          /\ users' = users]_vars

\* C8 amended: in that case update_user ends with 404 and delete_user with
\* 200 (500 only when the statement itself fails with a database error), and
\* "Users" holds no row for the id and is otherwise unchanged.
C8_RowGoneEndsWith404Or200 ==
    [][RowGoneBeforeAct =>
          /\ ev'.done
          /\ ev'.status = IF ev'.dberr THEN 500
                          ELSE IF ev'.handler = "update_user" THEN 404 ELSE 200
          /\ users' = users
          /\ \A row \in users' : row.id # ev'.id]_vars

\* C8 witness: the UPDATE of an update_user matched no row, a second user
\* being in the table
C8_Witness ==
    /\ ev.handler = "update_user"
    /\ ev.stmt = 2
    /\ ~ev.dberr
    /\ ev.rows = 0
    /\ ev.status = 404
    /\ users # {}
    /\ \A row \in users : row.id # ev.id

\* a statement after the first has just failed and ended its request
LaterStatementFailed ==
    /\ ev'.stmt >= 2
    /\ ev'.done
    /\ ev'.status = 500

\* C9 as stated: every handler issues at least one and at most two
\* statements per request, and a second statement that fails leaves both
\* tables as the first statement made them.
C9_AtMostTwoStatementsNoRollback ==
    /\ [](ev.handler # "none" => ev.stmt \in 1..2)
    /\ [][LaterStatementFailed => users' = users /\ todos' = todos]_vars

\* C9 amended: a request issues at least one statement and at most two,
\* except update_user, which issues three on its success path; and a
\* statement after the first that fails leaves both tables as the earlier
\* statements made them.
C9_AtMostThreeStatementsNoRollback ==
    /\ [](ev.handler # "none" =>
            /\ ev.stmt \in 1..3
            /\ ev.stmt = 3 => ev.handler = "update_user")
    /\ [][LaterStatementFailed => users' = users /\ todos' = todos]_vars

\* C9 witness: the fetch of create_user failed and the inserted user is in
\* the table
C9_Witness ==
    /\ ev.handler = "create_user"
    /\ ev.stmt = 2
    /\ ev.status = 500
    /\ \E row \in users : row.id = ev.id
====
